---- MODULE Spec2Model ----
(***************************************************************************)
(* Gateway runtime of descord: WsManager (src/src/ws/websocket_manager.rs). *)
(* connect() = handshake + read loop, heartbeat_start, dispatch_event,      *)
(* reconnect and fetch_permissions.                                         *)
(***************************************************************************)
EXTENDS Integers, Sequences, FiniteSets, TLC

VARIABLES
    pc,                 \* position of connect(): "handshake", "identify", "loop", "returned", "panicked"
    result,             \* value connect() returned: "none" (not returned), "Ok", "Err"
    first,              \* what the first socket read of connect() yielded (<<>> before it)
    reads,              \* number of socket reads done by the read loop
    broke,              \* what the read that ended the read loop yielded ("" while it has not ended)
    seen,               \* the Dispatch frames the read loop processed: how many, the largest
                        \* sequence number among them, and whether every one carried a
                        \* sequence number larger than all before it
    sequence,           \* WsManager.sequence (Arc<Mutex<usize>>)
    heartbeat,          \* heartbeat tasks: started count, last_sequence, sent frames, state
    identifies,         \* Identify frames written to the socket
    RESUME_GATEWAY_URL, \* crate::client::RESUME_GATEWAY_URL (Option)
    SESSION_ID,         \* crate::client::SESSION_ID (Option)
    BOT_ID,             \* crate::client::BOT_ID (Option)
    tasks,              \* dispatch tasks spawned by the read loop, in spawn order
    ignored,            \* per frame with opcode Reconnect the read loop read: were the resume
                        \* URL and the session id stored (by a Ready event) at that time?
    skipped,            \* malformed text frames the read loop has skipped
    resumes,            \* the connections reconnect() opened, each with the Resume frame sent on it
    MESSAGE_CACHE,      \* crate::cache::MESSAGE_CACHE, least recently used first
    event_handlers,     \* registered generic handlers (set of Event tags)
    poisoned,           \* the statics of crate::client whose std Mutex is poisoned
    perm,               \* one fetch_permissions call: its arguments and its result
    lk                  \* the locks: who holds each, and where each task is among its lock
                        \* operations (connect(), the heartbeat task, the dispatch tasks)

vars == <<pc, result, first, reads, broke, seen, sequence, heartbeat, identifies,
          RESUME_GATEWAY_URL, SESSION_ID, BOT_ID, tasks, ignored, skipped, resumes,
          MESSAGE_CACHE, event_handlers, poisoned, perm, lk>>

connVars == <<pc, result, first, reads, broke, seen, sequence, identifies, ignored, skipped>>
sessionVars == <<RESUME_GATEWAY_URL, SESSION_ID, BOT_ID, poisoned>>

\* ---------------------------------------------------------------- bounds
MaxFrames == 2      \* socket reads the read loop performs
MaxSeq == 2         \* largest sequence number a Dispatch frame carries
MaxBeats == 2       \* Heartbeat frames the heartbeat task sends
MaxOverwrites == 2  \* permission overwrites a channel carries

\* ---------------------------------------------------------------- options
None == <<>>
Some(v) == <<v>>
IsSome(o) == Len(o) = 1
Unwrap(o) == o[1]
\* Option::unwrap_or
unwrap_or(o, dflt) == IF IsSome(o) THEN o[1] ELSE dflt

\* ---------------------------------------------------------------- frames
OpCodes == {"Dispatch", "Hello", "Reconnect", "HeartbeatAck"}

\* an event body (payload.raw_json once decoded); the fields an event does not have are empty
Body(shape, url, sid, uid, id, content, author, roles) ==
    [shape |-> shape, resume_gateway_url |-> url, session_id |-> sid, user_id |-> uid,
     id |-> id, content |-> content, author |-> author, roles |-> roles]

\* the data of a Ready event: resume_gateway_url, session_id, user.id
ReadyBodies == { Body("ready", "wss://a", "sA", "bot", "", <<>>, "", <<>>),
                 Body("ready", "wss://b", "sB", "bot", "", <<>>, "", <<>>) }

\* the body of an event the dispatcher decodes no field of
NoData == Body("none", "", "", "", "", <<>>, "", <<>>)

\* Payload (crate::ws::payload): operation_code, sequence, type_name, data
Payload(op, s, t, d) == [operation_code |-> op, sequence |-> s, type_name |-> t, data |-> d]

SeqNumbers == {None} \cup {Some(n) : n \in 0..MaxSeq}

\* frames without an event: Hello, Reconnect, Heartbeat ACK
ControlPayloads == { Payload(o, None, None, NoData) : o \in OpCodes \ {"Dispatch"} }

\* the frames of the connection model: every opcode, Dispatch frames with every sequence
\* number and an event the dispatcher passes through (GUILD_CREATE), has no arm for
\* (TYPING_START), does not know (NOT_AN_EVENT), or with no type name at all
ConnPayloads ==
    ControlPayloads
    \cup { Payload("Dispatch", s, Some("GUILD_CREATE"), NoData) : s \in SeqNumbers }
    \cup { Payload("Dispatch", Some(0), t, NoData) : t \in {Some("TYPING_START"), Some("NOT_AN_EVENT"), None} }

\* the frames of the session model: Ready and Reconnect events, and the Reconnect opcode
SessionPayloads ==
    { Payload("Reconnect", None, None, NoData) }
    \cup { Payload("Dispatch", Some(n), Some("READY"), d) : n \in 0..MaxSeq, d \in ReadyBodies }
    \cup { Payload("Dispatch", Some(n), Some("RECONNECT"), NoData) : n \in 0..MaxSeq }

\* what one `next().await` on the read half yields:
\*   Some(Ok(Message::Text(body))), Some(Ok(<any other Message>)), Some(Err(e)), None
\* a text body is either a parsable payload or malformed
Item(kind, wellformed, payload) == [kind |-> kind, wellformed |-> wellformed, payload |-> payload]
AnyPayload == Payload("HeartbeatAck", None, None, NoData)
TextItems(payloads) == { Item("Text", TRUE, p) : p \in payloads } \cup { Item("Text", FALSE, AnyPayload) }
OtherItems == { Item(k, FALSE, AnyPayload) : k \in {"NonText", "Err", "End"} }

\* Payload::parse: None on a malformed body
parse(item) == IF item.wellformed THEN Some(item.payload) ELSE None

\* ---------------------------------------------------------------- handshake
\* `if let Some(Ok(Message::Text(body)))`
IsText(item) == item.kind = "Text"

IsHello_AnyOpcode(payload) == TRUE
\* `OpCode::Hello =>` arm of the handshake match
IsHello(payload) == payload.operation_code = "Hello"

\* `OpCode::Dispatch =>` arm of the read loop match
IsDispatch_AnyOpcode(payload) == TRUE
\* line 126: `OpCode::Dispatch =>`
IsDispatch(payload) == payload.operation_code = "Dispatch"

\* tokio::spawn(heartbeat_start(..)): a new task with last_sequence = 0
SpawnHeartbeat == [heartbeat EXCEPT !.started = @ + 1]

\* connect(), lines 87-103: the first read and the match on its opcode
Handshake(item) ==
    /\ pc = "handshake"
    /\ first' = Some(item)
    /\ IF IsText(item)
       THEN IF ~IsSome(parse(item))
            THEN /\ pc' = "panicked"        \* panic!("Failed to parse json")
                 /\ UNCHANGED heartbeat
            ELSE IF IsHello(Unwrap(parse(item)))
                 THEN /\ heartbeat' = SpawnHeartbeat
                      /\ pc' = "identify"
                 ELSE /\ pc' = "panicked"   \* panic!("Unknown event received ...")
                      /\ UNCHANGED heartbeat
       ELSE /\ pc' = "loop"                 \* the `if let` does not match: fall through
            /\ UNCHANGED heartbeat
    /\ UNCHANGED <<result, reads, broke, seen, sequence, identifies, ignored, skipped, sessionVars, tasks,
                   resumes, MESSAGE_CACHE, event_handlers, perm, lk>>

\* connect(), line 105: self.identify(intents).await?
Identify(ok) ==
    /\ pc = "identify"
    /\ IF ok
       THEN /\ identifies' = identifies + 1
            /\ pc' = "loop"
            /\ UNCHANGED result
       ELSE /\ pc' = "returned"
            /\ result' = "Err"
            /\ UNCHANGED identifies
    /\ UNCHANGED <<first, reads, broke, seen, sequence, heartbeat, ignored, skipped, sessionVars, tasks,
                   resumes, MESSAGE_CACHE, event_handlers, perm, lk>>

\* connect(), line 161: `break x.unwrap().unwrap_err()` on what is not a text frame
\*   Some(Err(e)) -> the loop's value is e;  None -> unwrap panics;
\*   Some(Ok(non-text message)) -> unwrap_err panics
BreakValue(item) == IF item.kind = "Err" THEN "e" ELSE "panic"

\* connect(), lines 165-167: `info!("Exiting..."); Ok(())`; `err` is not used
ReturnOk(err) == "Ok"

\* a dispatch task as tokio::spawn creates it (lines 145-155)
NewTask(payload) ==
    [type_name |-> payload.type_name, pc |-> "start", event |-> "", data |-> payload.data,
     url |-> "", sid |-> "", seq |-> 0, raw |-> "none", idx |-> 1, cause |-> "", log |-> <<>>]

AwaitedTasks_All == 1..Len(tasks)
\* the dispatch tasks the read loop awaits before its next read: none, the JoinHandle
\* tokio::spawn returns is dropped
AwaitedTasks == {}

\* a task that has run to its end, by returning or by panicking
Finished(i) == tasks[i].pc \in {"done", "panicked"}

\* tokio::spawn(async move { Self::dispatch_event(..).await.expect(..) }): not awaited
Spawn(payload) == Append(tasks, NewTask(payload))

RecordSequence_Stale(payload) == IF sequence = 0 THEN unwrap_or(payload.sequence, 0) ELSE sequence
\* lines 127-128: `*self.sequence.lock().await = payload.sequence.unwrap_or(0)`
RecordSequence(payload) == unwrap_or(payload.sequence, 0)

\* the record of the Dispatch frames processed so far, after one more that carries sequence s
Observe(s) ==
    [count |-> seen.count + 1,
     max |-> IF IsSome(s) /\ (~IsSome(seen.max) \/ Unwrap(s) > Unwrap(seen.max)) THEN s ELSE seen.max,
     increasing |-> /\ seen.increasing
                    /\ IsSome(s)
                    /\ (IsSome(seen.max) => Unwrap(s) > Unwrap(seen.max))]

MalformedInLoop_Panics == "panic"
\* lines 118-121: a parse failure in the read loop: `error!("Failed to parse json"); continue`
MalformedInLoop == "continue"

\* connect(), lines 116-163: one iteration of the read loop
ReadLoop(item) ==
    /\ pc = "loop"
    /\ reads < MaxFrames \/ ~IsText(item)
    /\ \A i \in AwaitedTasks : Finished(i)
    /\ reads' = reads + 1
    /\ IF IsText(item)
       THEN IF ~IsSome(parse(item))
            THEN /\ skipped' = skipped + 1
                 /\ IF MalformedInLoop = "continue"
                    THEN UNCHANGED pc
                    ELSE pc' = "panicked"
                 /\ UNCHANGED <<result, broke, seen, sequence, tasks, ignored>>
            ELSE LET payload == Unwrap(parse(item)) IN
                 IF IsDispatch(payload)
                 THEN /\ sequence' = RecordSequence(payload)
                      /\ seen' = Observe(payload.sequence)
                      /\ tasks' = Spawn(payload)
                      /\ UNCHANGED <<pc, result, broke, ignored, skipped>>
                 ELSE \* `_ => {}`
                      /\ ignored' = IF payload.operation_code = "Reconnect"
                                    THEN Append(ignored, IsSome(RESUME_GATEWAY_URL) /\ IsSome(SESSION_ID))
                                    ELSE ignored
                      /\ UNCHANGED <<pc, result, broke, seen, sequence, tasks, skipped>>
       ELSE /\ broke' = item.kind
            /\ IF BreakValue(item) = "panic"
               THEN pc' = "panicked" /\ UNCHANGED result
               ELSE pc' = "returned" /\ result' = ReturnOk(BreakValue(item))
            /\ UNCHANGED <<seen, sequence, tasks, ignored, skipped>>
    /\ UNCHANGED <<first, heartbeat, identifies, sessionVars, resumes,
                   MESSAGE_CACHE, event_handlers, perm, lk>>

\* heartbeat_start, lines 425-439: one iteration of its loop (send, sleep, last_sequence += 1)
HeartbeatBeat(ok) ==
    /\ heartbeat.started > 0
    /\ heartbeat.state = "running"
    /\ Len(heartbeat.sent) < MaxBeats
    /\ heartbeat' = IF ok
                    THEN [heartbeat EXCEPT !.sent = Append(@, heartbeat.last_sequence),
                                           !.last_sequence = @ + 1]
                    ELSE [heartbeat EXCEPT !.state = "panicked"]  \* .expect("Failed to send heartbeat")
    /\ UNCHANGED <<connVars, sessionVars, tasks, resumes, MESSAGE_CACHE, event_handlers, perm, lk>>

\* ---------------------------------------------------------------- fetch_permissions
\* u64 bit operations
RECURSIVE BitAnd(_, _)
BitAnd(a, b) == IF a = 0 \/ b = 0 THEN 0 ELSE (a % 2) * (b % 2) + 2 * BitAnd(a \div 2, b \div 2)

RECURSIVE BitOr(_, _)
BitOr(a, b) ==
    IF a = 0 THEN b ELSE IF b = 0 THEN a
    ELSE (IF a % 2 = 1 \/ b % 2 = 1 THEN 1 ELSE 0) + 2 * BitOr(a \div 2, b \div 2)

\* a & !d
RECURSIVE AndNot(_, _)
AndNot(a, d) == IF a = 0 THEN 0 ELSE (a % 2) * (1 - (d % 2)) + 2 * AndNot(a \div 2, d \div 2)

\* consts::permissions::ADMINISTRATOR, the single bit 1 << 3
ADMINISTRATOR == 8

\* str::parse::<u64> on a string of decimal digits (a sequence of digits); -1: Err
RECURSIVE ParseDigits(_, _)
ParseDigits(acc, ds) == IF ds = <<>> THEN acc ELSE ParseDigits(10 * acc + Head(ds), Tail(ds))
ParseU64(ds) == IF ds = <<>> THEN -1 ELSE ParseDigits(0, ds)

Range(f) == { f[x] : x \in DOMAIN f }

IsOwner_Never(guild, id) == FALSE
\* line 458: `guild.owner_id == id`
IsOwner(guild, id) == guild.owner_id = id

\* lines 472-476: OR in the permissions of every member role the guild resolves
RECURSIVE AggregateRoles(_, _, _)
AggregateRoles(base_permissions, roles, guild) ==
    IF roles = <<>> THEN base_permissions
    ELSE AggregateRoles(
            IF Head(roles) \in DOMAIN guild.roles
            THEN BitOr(base_permissions, ParseU64(guild.roles[Head(roles)]))
            ELSE base_permissions,
            Tail(roles), guild)

ApplyOverwrite_DenyLast(base_permissions, overwrite) ==
    AndNot(BitOr(base_permissions, ParseU64(overwrite.allow)), ParseU64(overwrite.deny))
\* lines 492-493 and 496-497: `base_permissions &= !deny; base_permissions |= allow;`
ApplyOverwrite(base_permissions, overwrite) ==
    BitOr(AndNot(base_permissions, ParseU64(overwrite.deny)), ParseU64(overwrite.allow))

\* lines 490 and 494: a member overwrite for this member, or a role overwrite for one of its roles
OverwriteApplies(overwrite, roles, id) ==
    \/ overwrite.overwrite_type = 1 /\ overwrite.id = id
    \/ overwrite.overwrite_type = 0 /\ overwrite.id \in Range(roles)

\* lines 486-499: the overwrites, in list order
RECURSIVE ApplyOverwrites(_, _, _, _)
ApplyOverwrites(base_permissions, overwrites, roles, id) ==
    IF overwrites = <<>> THEN base_permissions
    ELSE ApplyOverwrites(
            IF OverwriteApplies(Head(overwrites), roles, id)
            THEN ApplyOverwrite(base_permissions, Head(overwrites))
            ELSE base_permissions,
            Tail(overwrites), roles, id)

\* the result of a call that panicked (default_role().await.unwrap(), parse().unwrap())
Panicked == -1

\* fetch_permissions, lines 451-504
fetch_permissions(roles, id, guild, channel) ==
    IF IsOwner(guild, id) THEN ADMINISTRATOR
    ELSE IF ParseU64(guild.default) < 0 THEN Panicked
    ELSE LET base_permissions == AggregateRoles(ParseU64(guild.default), roles, guild) IN
         IF BitAnd(base_permissions, ADMINISTRATOR) = ADMINISTRATOR THEN ADMINISTRATOR
         ELSE IF IsSome(channel) /\ IsSome(Unwrap(channel).permission_overwrites)
              THEN ApplyOverwrites(base_permissions, Unwrap(Unwrap(channel).permission_overwrites), roles, id)
              ELSE base_permissions

\* a channel permission overwrite: target id, type (0 role, 1 member), allow and deny strings
Overwrite(id, type, allow, deny) == [id |-> id, overwrite_type |-> type, allow |-> allow, deny |-> deny]

NoGuild == [owner_id |-> "", default |-> <<>>, roles |-> <<>>]
NoPerm == [roles |-> <<>>, id |-> "", guild |-> NoGuild, channel |-> None,
           state |-> "idle", result |-> 0]

\* ---------------------------------------------------------------- dispatch_event
connAll == <<pc, result, first, reads, broke, seen, sequence, heartbeat, identifies, ignored, skipped>>

\* Event::from_str (crate::handlers::events): the tag of a type name, "Err" for an unknown name
EventFromStr(name) ==
    CASE name = "READY" -> "Ready"
      [] name = "RECONNECT" -> "Reconnect"
      [] name = "MESSAGE_CREATE" -> "MessageCreate"
      [] name = "MESSAGE_UPDATE" -> "MessageUpdate"
      [] name = "MESSAGE_DELETE" -> "MessageDelete"
      [] name = "GUILD_CREATE" -> "GuildCreate"
      [] name = "INTERACTION_CREATE" -> "InteractionCreate"
      [] name = "TYPING_START" -> "TypingStart"
      [] OTHER -> "Err"

\* the events dispatch_event has a match arm for (lines 186-381)
Implemented == {"Ready", "Reconnect", "MessageCreate", "MessageUpdate", "MessageDelete", "GuildCreate",
                "InteractionCreate"}

\* lines 177-183: the event tag of a task's payload ("Panic": type_name is None, unwrap panics)
EventOf(t) ==
    IF ~IsSome(t.type_name) THEN "Panic" ELSE EventFromStr(Unwrap(t.type_name))

Running(i) == i \in 1..Len(tasks) /\ tasks[i].pc = "start"
At(i, where) == i \in 1..Len(tasks) /\ tasks[i].pc = where
Goto(i, where) == [tasks EXCEPT ![i].pc = where]

\* the task panics; what made it panic is kept with it:
\*   "type_name", "decode": an unwrap on what the frame does not have or does not decode to
\*   "none": an unwrap on None that is not from the frame;  "network": a failed request
\*   "poisoned": `.lock().unwrap()` on a std Mutex that a panicking task poisoned
Panic(i, cause) == [tasks EXCEPT ![i].pc = "panicked", ![i].cause = cause]

\* lines 177-183 and 383-386: no type name, an unknown name, an event with no arm
DispatchUnhandled(i) ==
    /\ Running(i)
    /\ EventOf(tasks[i]) \notin Implemented
    /\ tasks' = IF EventOf(tasks[i]) = "Panic" THEN Panic(i, "type_name") ELSE Goto(i, "done")
    /\ UNCHANGED <<connAll, sessionVars, resumes, MESSAGE_CACHE, event_handlers, perm, lk>>

\* lines 323-326: GuildCreate, the decoded body goes straight to the generic handler
\* (deserialize_json(..).unwrap() panics on a body that does not decode)
DispatchGuildCreate(i, decodes) ==
    /\ Running(i)
    /\ EventOf(tasks[i]) = "GuildCreate"
    /\ tasks' = IF decodes
                THEN [tasks EXCEPT ![i].pc = "handler", ![i].event = "GuildCreate"]
                ELSE Panic(i, "decode")
    /\ UNCHANGED <<connAll, sessionVars, resumes, MESSAGE_CACHE, event_handlers, perm, lk>>

\* `X.lock().unwrap()` on a static of crate::client: Err(PoisonError) once a task has
\* panicked with the guard of X alive
LockFails(static) == static \in poisoned

\* lines 186-189: Ready, `*RESUME_GATEWAY_URL.lock().unwrap() = Some(..)`
\* (deserialize_json(..).unwrap() panics on a body that does not decode)
DispatchReady(i, decodes) ==
    /\ Running(i)
    /\ EventOf(tasks[i]) = "Ready"
    /\ IF ~decodes
       THEN /\ tasks' = Panic(i, "decode")
            /\ UNCHANGED RESUME_GATEWAY_URL
       ELSE IF LockFails("RESUME_GATEWAY_URL")
       THEN /\ tasks' = Panic(i, "poisoned")
            /\ UNCHANGED RESUME_GATEWAY_URL
       ELSE /\ RESUME_GATEWAY_URL' = Some(tasks[i].data.resume_gateway_url)
            /\ tasks' = [tasks EXCEPT ![i].pc = "ready_session", ![i].event = "Ready"]
    /\ UNCHANGED <<connAll, SESSION_ID, BOT_ID, poisoned, resumes, MESSAGE_CACHE, event_handlers, perm, lk>>

\* line 190: `*SESSION_ID.lock().unwrap() = Some(..)`
ReadySession(i) ==
    /\ At(i, "ready_session")
    /\ IF LockFails("SESSION_ID")
       THEN /\ tasks' = Panic(i, "poisoned")
            /\ UNCHANGED SESSION_ID
       ELSE /\ SESSION_ID' = Some(tasks[i].data.session_id)
            /\ tasks' = Goto(i, "ready_bot")
    /\ UNCHANGED <<connAll, RESUME_GATEWAY_URL, BOT_ID, poisoned, resumes, MESSAGE_CACHE, event_handlers, perm, lk>>

\* lines 191-193: `*BOT_ID.lock().unwrap() = Some(..)`, then the generic handler
ReadyBot(i) ==
    /\ At(i, "ready_bot")
    /\ BOT_ID' = Some(tasks[i].data.user_id)
    /\ tasks' = Goto(i, "handler")
    /\ UNCHANGED <<connAll, RESUME_GATEWAY_URL, SESSION_ID, poisoned, resumes, MESSAGE_CACHE, event_handlers, perm, lk>>

\* crate::client::TOKEN
TOKEN == "token"

\* payloads::resume(&token, &session_id, seq), sent to the connection opened to `url`
ResumeFrame(url, session_id, seq) == [url |-> url, token |-> TOKEN, session_id |-> session_id, seq |-> seq]

\* line 400: `X.lock().unwrap().as_ref().unwrap()` on None panics while the guard, a
\* temporary of the statement, is alive: dropping it in the unwinding poisons the Mutex
Poison(static) == poisoned \cup {static}

\* lines 287-288 and 400: Reconnect, reconnect() reads the resume URL (unwrap panics on None)
DispatchReconnect(i) ==
    /\ Running(i)
    /\ EventOf(tasks[i]) = "Reconnect"
    /\ IF LockFails("RESUME_GATEWAY_URL")
       THEN tasks' = Panic(i, "poisoned") /\ UNCHANGED poisoned
       ELSE IF ~IsSome(RESUME_GATEWAY_URL)
       THEN tasks' = Panic(i, "none") /\ poisoned' = Poison("RESUME_GATEWAY_URL")
       ELSE /\ tasks' = [tasks EXCEPT ![i].pc = "reconnect_session", ![i].event = "Reconnect",
                                      ![i].url = Unwrap(RESUME_GATEWAY_URL)]
            /\ UNCHANGED poisoned
    /\ UNCHANGED <<connAll, RESUME_GATEWAY_URL, SESSION_ID, BOT_ID, resumes, MESSAGE_CACHE, event_handlers, perm, lk>>

\* lines 401-402: reconnect() reads the token and the session id (unwrap panics on None)
ReconnectSession(i) ==
    /\ At(i, "reconnect_session")
    /\ IF LockFails("SESSION_ID")
       THEN tasks' = Panic(i, "poisoned") /\ UNCHANGED poisoned
       ELSE IF ~IsSome(SESSION_ID)
       THEN tasks' = Panic(i, "none") /\ poisoned' = Poison("SESSION_ID")
       ELSE /\ tasks' = [tasks EXCEPT ![i].pc = "reconnect_seq", ![i].sid = Unwrap(SESSION_ID)]
            /\ UNCHANGED poisoned
    /\ UNCHANGED <<connAll, RESUME_GATEWAY_URL, SESSION_ID, BOT_ID, resumes, MESSAGE_CACHE, event_handlers, perm, lk>>

\* line 403: `let seq = *seq.lock().await`
ReconnectSeq(i) ==
    /\ At(i, "reconnect_seq")
    /\ tasks' = [tasks EXCEPT ![i].pc = "reconnect_open", ![i].seq = sequence]
    /\ UNCHANGED <<connAll, sessionVars, resumes, MESSAGE_CACHE, event_handlers, perm, lk>>

\* the connection WsManager::new opens and splits into self.socket (number 0); the
\* connections reconnect() opens are numbered from 1
InitialConnection == 0

\* line 117: the read loop reads `self.socket.1`, which is never reassigned
ReadHalf == InitialConnection

\* lines 95 and 428: the heartbeat task writes to a clone of `self.socket.0`
WriteHalf == InitialConnection

\* lines 405-416: the connection reconnect() opens, with the Resume frame sent on it
Connection(number, frame) == [number |-> number, sent |-> frame, open |-> TRUE]

\* line 417: `socket` is a local of reconnect(); it is dropped, and the connection with
\* it, when reconnect() returns
Dropped(connection) == [connection EXCEPT !.open = FALSE]

\* lines 405-417: connect_async(url).await.unwrap(), socket.send(resume).await.expect(..);
\* the new socket is a local of reconnect() and is dropped when it returns
ReconnectResume(i, opened, sent) ==
    /\ At(i, "reconnect_open")
    /\ IF opened /\ sent
       THEN /\ resumes' = Append(resumes, Dropped(Connection(Len(resumes) + 1,
                                  ResumeFrame(tasks[i].url, tasks[i].sid, tasks[i].seq))))
            /\ tasks' = Goto(i, "handler")
       ELSE /\ opened \/ ~sent
            /\ tasks' = Panic(i, "network")
            /\ UNCHANGED resumes
    /\ UNCHANGED <<connAll, sessionVars, MESSAGE_CACHE, event_handlers, perm, lk>>

\* a call of a user handler or command body, or a reply sent in the channel
Call(kind, name, data) == [kind |-> kind, name |-> name, data |-> data]

\* lines 389-394: the generic handler of the (possibly re-tagged) event, if one is registered;
\* the handler body is user code and may never complete
CallHandler(i, completes) ==
    /\ At(i, "handler")
    /\ IF tasks[i].event \in event_handlers
       THEN tasks' = [tasks EXCEPT ![i].log = Append(@, Call("handler", tasks[i].event, tasks[i].data)),
                                   ![i].pc = IF completes THEN "done" ELSE "hung"]
       ELSE /\ completes
            /\ tasks' = Goto(i, "done")
    /\ UNCHANGED <<connAll, sessionVars, resumes, MESSAGE_CACHE, event_handlers, perm, lk>>

\* ---------------------------------------------------------------- message events
\* crate::cache::MESSAGE_CACHE, an LRU cache: capacity, put, pop
MessageCacheCapacity == 1

Without(cache, key) == SelectSeq(cache, LAMBDA e : e.key # key)

\* LruCache::put: the entry becomes the most recently used one; over capacity the least
\* recently used entry is evicted
put(cache, key, value) ==
    LET added == Append(Without(cache, key), [key |-> key, value |-> value])
    IN IF Len(added) > MessageCacheCapacity THEN Tail(added) ELSE added

\* LruCache::pop: the value removed, None for a key that is not cached
popped(cache, key) ==
    IF \E n \in 1..Len(cache) : cache[n].key = key
    THEN Some((CHOOSE e \in Range(cache) : e.key = key).value)
    ELSE None

\* `content.split(' ').next()`: the content up to its first space (always Some)
RECURSIVE FirstToken(_)
FirstToken(content) ==
    IF content = <<>> \/ Head(content) = " " THEN <<>>
    ELSE <<Head(content)>> \o FirstToken(Tail(content))

\* consts::permissions::parse: the bit of a permission name, None for an unknown name
ParsePermission(name) ==
    CASE name = "KICK_MEMBERS" -> Some(2)
      [] name = "BAN_MEMBERS" -> Some(4)
      [] name = "ADMINISTRATOR" -> Some(ADMINISTRATOR)
      [] OTHER -> None

\* the registered commands: name -> declared permission names
commands == [ p |-> <<>>, k |-> <<"KICK_MEMBERS">> ]

CommandOf_Never(content) == None
\* lines 204-205: the command the first token of the content names, if any
CommandOf(content) ==
    LET command_name == FirstToken(content) IN
    IF Len(command_name) = 1 /\ command_name[1] \in DOMAIN commands
    THEN Some(command_name[1]) ELSE None

\* lines 206-211: OR of the bits of the permissions the command declares
RECURSIVE RequiredPermissions(_)
RequiredPermissions(permissions) ==
    IF permissions = <<>> THEN 0
    ELSE BitOr(Unwrap(ParsePermission(Head(permissions))), RequiredPermissions(Tail(permissions)))

Denied_Never(user_permissions, required_permissions) == FALSE
\* line 230: `user_permissions & required_permissions != required_permissions`
Denied(user_permissions, required_permissions) ==
    BitAnd(user_permissions, required_permissions) # required_permissions

\* what fetch_channel and fetch_guild return for the channel of the messages
TheGuild == [owner_id |-> "owner", default |-> <<1>>, roles |-> [r1 |-> <<2>>]]
TheChannel == [permission_overwrites |-> Some(<<Overwrite("u1", 1, <<4>>, <<0>>)>>)]

DenialReply == "You are missing the required permissions for running this command"

\* the minimal payload of a delete: message id (and channel id)
Deleted(id) == Body("deleted", "", "", "", id, <<>>, "", <<>>)

\* lines 196-202: MessageCreate, the message is put in the cache; lines 204-216 and
\* 251: the command lookup decides where the task goes next
DispatchMessageCreate(i, decodes) ==
    /\ Running(i)
    /\ EventOf(tasks[i]) = "MessageCreate"
    /\ IF decodes
       THEN LET message == tasks[i].data
                command == CommandOf(message.content)
            IN /\ MESSAGE_CACHE' = put(MESSAGE_CACHE, message.id, message)
               /\ tasks' = [tasks EXCEPT
                     ![i].event = "MessageCreate",
                     ![i].pc = IF ~IsSome(command) THEN "handler"
                               ELSE IF RequiredPermissions(commands[Unwrap(command)]) # 0
                                    THEN "authorize" ELSE "command"]
       ELSE /\ tasks' = Panic(i, "decode")
            /\ UNCHANGED MESSAGE_CACHE
    /\ UNCHANGED <<connAll, sessionVars, resumes, event_handlers, perm, lk>>

\* lines 217-240: fetch the channel and the guild (unwrap panics on failure), resolve the
\* member's permissions, reply with the denial and return when they do not suffice
Authorize(i, fetched) ==
    /\ At(i, "authorize")
    /\ LET message == tasks[i].data
           required_permissions == RequiredPermissions(commands[Unwrap(CommandOf(message.content))])
           user_permissions == fetch_permissions(message.roles, message.author, TheGuild, Some(TheChannel))
       IN tasks' =
            IF ~fetched THEN Panic(i, "network")
            ELSE IF Denied(user_permissions, required_permissions)
                 THEN [tasks EXCEPT ![i].log = Append(@, Call("reply", DenialReply, message)),
                                    ![i].pc = "done"]
                 ELSE Goto(i, "command")
    /\ UNCHANGED <<connAll, sessionVars, resumes, MESSAGE_CACHE, event_handlers, perm, lk>>

\* lines 242-247: the command body; its failure is replied in the channel; the task
\* returns without reaching the generic handler
RunCommand(i, outcome) ==
    /\ At(i, "command")
    /\ LET message == tasks[i].data
           called == Append(tasks[i].log, Call("command", Unwrap(CommandOf(message.content)), message))
       IN tasks' =
            CASE outcome = "Ok" -> [tasks EXCEPT ![i].log = called, ![i].pc = "done"]
              [] outcome = "Err" -> [tasks EXCEPT ![i].log = Append(called, Call("reply", "error", message)),
                                                  ![i].pc = "done"]
              [] outcome = "Hang" -> [tasks EXCEPT ![i].log = called, ![i].pc = "hung"]
    /\ UNCHANGED <<connAll, sessionVars, resumes, MESSAGE_CACHE, event_handlers, perm, lk>>

\* lines 254-263: MessageUpdate, the message overwrites the cache entry
DispatchMessageUpdate(i, decodes) ==
    /\ Running(i)
    /\ EventOf(tasks[i]) = "MessageUpdate"
    /\ IF decodes
       THEN /\ MESSAGE_CACHE' = put(MESSAGE_CACHE, tasks[i].data.id, tasks[i].data)
            /\ tasks' = [tasks EXCEPT ![i].event = "MessageUpdate", ![i].pc = "handler"]
       ELSE /\ tasks' = Panic(i, "decode")
            /\ UNCHANGED MESSAGE_CACHE
    /\ UNCHANGED <<connAll, sessionVars, resumes, event_handlers, perm, lk>>

DeleteEvent_NoRetag(cached_data) == "MessageDelete"
\* lines 268 and 282: the event stays MessageDelete for a cached message and becomes
\* MessageDeleteRaw otherwise
DeleteEvent(cached_data) == IF IsSome(cached_data) THEN "MessageDelete" ELSE "MessageDeleteRaw"

\* lines 265-285: MessageDelete, the id is popped from the cache; a cached message goes to
\* the MessageDelete handler and the raw-delete handler, if registered, is spawned with the
\* minimal payload; without a cached message the event becomes MessageDeleteRaw
DispatchMessageDelete(i, decodes) ==
    /\ Running(i)
    /\ EventOf(tasks[i]) = "MessageDelete"
    /\ IF decodes
       THEN LET cached_data == popped(MESSAGE_CACHE, tasks[i].data.id) IN
            /\ MESSAGE_CACHE' = Without(MESSAGE_CACHE, tasks[i].data.id)
            /\ tasks' =
                 IF IsSome(cached_data)
                 THEN [tasks EXCEPT ![i].event = DeleteEvent(cached_data),
                                    ![i].raw = IF "MessageDeleteRaw" \in event_handlers
                                               THEN "spawned" ELSE "none",
                                    ![i].data = Unwrap(cached_data),
                                    ![i].pc = "handler"]
                 ELSE [tasks EXCEPT ![i].event = DeleteEvent(cached_data),
                                    ![i].data = Deleted(tasks[i].data.id),
                                    ![i].pc = "handler"]
       ELSE /\ tasks' = Panic(i, "decode")
            /\ UNCHANGED MESSAGE_CACHE
    /\ UNCHANGED <<connAll, sessionVars, resumes, event_handlers, perm, lk>>

\* lines 273-277: the spawned raw-delete handler call; its failure is replied in the channel
RawDeleteHandler(i, ok) ==
    /\ i \in 1..Len(tasks)
    /\ tasks[i].raw = "spawned"
    /\ LET minimal == Deleted(tasks[i].data.id)
           called == Append(tasks[i].log, Call("handler", "MessageDeleteRaw", minimal))
       IN tasks' = [tasks EXCEPT ![i].raw = "done",
                                 ![i].log = IF ok THEN called
                                            ELSE Append(called, Call("reply", "error", minimal))]
    /\ UNCHANGED <<connAll, sessionVars, resumes, MESSAGE_CACHE, event_handlers, perm, lk>>

\* ---------------------------------------------------------------- interactions
\* an interaction (InteractionResponsePayload.data): its id and token, its type, and its
\* command data (Option): the command's id (Option) and the options (Option of a list)
Interaction(id, type_, data) ==
    [shape |-> "interaction", id |-> id, token |-> "tok", type_ |-> type_, data |-> data]
CommandData(id, options) == [id |-> id, options |-> options]
\* an option of the invoked command as the interaction carries it
CommandOption(value, focused) == [value |-> value, focused |-> focused]

\* what an autocomplete provider returns for a partial value (user code)
Suggest(provider, value) ==
    CASE provider = "colour" -> (CASE value = "" -> <<"red", "blue">>
                                   [] value = "re" -> <<"red">>
                                   [] OTHER -> <<>>)
      [] provider = "shade" -> <<"dark", value>>

\* the registered slash commands: c1 has three parameters, the second without a provider
slash_commands == [c1 |-> [fn_param_autocomplete |-> <<Some("colour"), None, Some("shade")>>]]

IsFocused_DefaultTrue(itm) == unwrap_or(itm.focused, TRUE)
\* line 348: `itm.focused.unwrap_or(false)`
IsFocused(itm) == unwrap_or(itm.focused, FALSE)

\* lines 355-358: InteractionAutoCompleteChoice { name: i.clone(), value: i }
Choice(i) == [name |-> i, value |-> i]
\* lines 350-359: `.into_iter().map(..).collect()`
Choices(strings) == [j \in 1..Len(strings) |-> Choice(strings[j])]

\* lines 361-375: POST /interactions/{id}/{token}/callback with the choices
CallbackRequest(interaction, choices) ==
    Call("request", <<"interactions", interaction.id, interaction.token, "callback">>, choices)

\* lines 342-345: the unwraps before the loop over the options
AutocompleteUnwraps(interaction) ==
    /\ IsSome(interaction.data)
    /\ IsSome(Unwrap(interaction.data).id)
    /\ Unwrap(Unwrap(interaction.data).id) \in DOMAIN slash_commands
    /\ IsSome(Unwrap(interaction.data).options)

OptionsOf(interaction) == Unwrap(Unwrap(interaction.data).options)
ProvidersOf(interaction) == slash_commands[Unwrap(Unwrap(interaction.data).id)].fn_param_autocomplete

\* lines 328-345: InteractionCreate, up to the call of the command or the loop over the options
DispatchInteractionCreate(i, decodes) ==
    /\ Running(i)
    /\ EventOf(tasks[i]) = "InteractionCreate"
    /\ LET interaction == tasks[i].data
           to(where) == [tasks EXCEPT ![i].pc = where, ![i].event = "InteractionCreate"]
       IN tasks' =
            IF ~decodes THEN Panic(i, "decode")
            ELSE IF interaction.type_ = "ApplicationCommand"
            THEN IF ~IsSome(interaction.data) THEN to("handler")
                 ELSE IF ~IsSome(Unwrap(interaction.data).id) THEN Panic(i, "none")
                 ELSE IF Unwrap(Unwrap(interaction.data).id) \in DOMAIN slash_commands
                      THEN to("slash") ELSE to("handler")
            ELSE IF interaction.type_ = "ApplicationCommandAutocomplete"
            THEN IF AutocompleteUnwraps(interaction) THEN to("autocomplete") ELSE Panic(i, "none")
            ELSE to("handler")
    /\ UNCHANGED <<connAll, sessionVars, resumes, MESSAGE_CACHE, event_handlers, perm, lk>>

\* lines 334-337: the slash command's body, user code; an Err is replied to the interaction
RunSlashCommand(i, outcome) ==
    /\ At(i, "slash")
    /\ LET call == Call("slash", Unwrap(Unwrap(tasks[i].data.data).id), tasks[i].data) IN
       tasks' = CASE outcome = "Ok" -> [tasks EXCEPT ![i].log = Append(@, call), ![i].pc = "handler"]
                  [] outcome = "Err" ->
                        [tasks EXCEPT ![i].log = @ \o <<call, Call("reply", "ephemeral", "e")>>,
                                      ![i].pc = "handler"]
                  [] outcome = "Hang" -> [tasks EXCEPT ![i].log = Append(@, call), ![i].pc = "hung"]
    /\ UNCHANGED <<connAll, sessionVars, resumes, MESSAGE_CACHE, event_handlers, perm, lk>>

\* lines 347-377: one iteration of the loop over the options (the provider is user code and
\* may never return; fn_param_autocomplete[idx] panics out of range, unwrap panics on None)
AutocompleteOption(i, returns) ==
    /\ At(i, "autocomplete")
    /\ LET interaction == tasks[i].data
           options == OptionsOf(interaction)
           providers == ProvidersOf(interaction)
           idx == tasks[i].idx
       IN IF idx > Len(options)
          THEN returns /\ tasks' = Goto(i, "handler")
          ELSE IF ~IsFocused(options[idx])
          THEN returns /\ tasks' = [tasks EXCEPT ![i].idx = idx + 1]
          ELSE IF idx > Len(providers) \/ ~IsSome(providers[idx])
          THEN returns /\ tasks' = Panic(i, "none")
          ELSE IF ~returns
          THEN tasks' = Goto(i, "hung")
          ELSE tasks' = [tasks EXCEPT
                    ![i].log = Append(@, CallbackRequest(interaction,
                                   Choices(Suggest(Unwrap(providers[idx]), options[idx].value)))),
                    ![i].idx = idx + 1]
    /\ UNCHANGED <<connAll, sessionVars, resumes, MESSAGE_CACHE, event_handlers, perm, lk>>

\* socket.1, socket.0 and sequence of WsManager (tokio Mutex), the statics of crate::client
\* (std Mutex) and of crate::cache (tokio Mutex)
Locks == {"read", "write", "sequence", "RESUME_GATEWAY_URL", "TOKEN", "SESSION_ID", "BOT_ID",
          "MESSAGE_CACHE", "ROLE_CACHE"}

\* the tasks that take locks: connect(), the heartbeat task, the i-th dispatch task spawned
Nobody == [task |-> "", n |-> 0]
Connect == [task |-> "connect", n |-> 0]
Heartbeat == [task |-> "heartbeat", n |-> 0]
Dispatch(i) == [task |-> "dispatch", n |-> i]

\* no lock held, connect() not yet at its first read, no heartbeat task
NoLocks ==
    [held |-> [l \in Locks |-> Nobody], conn |-> "start", beat |-> "none", disp |-> <<>>]

\* ---------------------------------------------------------------- the connection
InitConn ==
    /\ pc = "handshake"
    /\ result = "none"
    /\ first = None
    /\ reads = 0
    /\ broke = ""
    /\ seen = [count |-> 0, max |-> None, increasing |-> TRUE]
    /\ sequence = 0
    /\ heartbeat = [started |-> 0, last_sequence |-> 0, sent |-> <<>>, state |-> "running"]
    /\ identifies = 0
    /\ RESUME_GATEWAY_URL = None
    /\ SESSION_ID = None
    /\ BOT_ID = None
    /\ poisoned = {}
    /\ tasks = <<>>
    /\ ignored = <<>>
    /\ skipped = 0
    /\ resumes = <<>>
    /\ MESSAGE_CACHE = <<>>
    /\ lk = NoLocks

Init ==
    /\ InitConn
    /\ event_handlers \in {{}, {"GuildCreate"}}
    /\ perm = NoPerm

ConnItems == TextItems(ConnPayloads) \cup OtherItems

Next ==
    \/ \E item \in ConnItems : Handshake(item)
    \/ \E ok \in BOOLEAN : Identify(ok)
    \/ \E item \in ConnItems : ReadLoop(item)
    \/ \E ok \in BOOLEAN : HeartbeatBeat(ok)
    \/ \E i \in 1..Len(tasks) : DispatchUnhandled(i)
    \/ \E i \in 1..Len(tasks), decodes \in BOOLEAN : DispatchGuildCreate(i, decodes)
    \/ \E i \in 1..Len(tasks), completes \in BOOLEAN : CallHandler(i, completes)

Spec == Init /\ [][Next]_vars

\* ---------------------------------------------------------------- the session
InitSession ==
    /\ InitConn
    /\ event_handlers \in {{}, {"Ready", "Reconnect"}}
    /\ perm = NoPerm

HelloItem == Item("Text", TRUE, Payload("Hello", None, None, NoData))
MalformedItem == Item("Text", FALSE, AnyPayload)
SessionItems ==
    { Item("Text", TRUE, p) : p \in SessionPayloads } \cup { MalformedItem, Item("Err", FALSE, AnyPayload) }

NextSession ==
    \/ Handshake(HelloItem)
    \/ \E ok \in BOOLEAN : Identify(ok)
    \/ \E item \in SessionItems : ReadLoop(item)
    \/ \E i \in 1..Len(tasks), decodes \in BOOLEAN : DispatchReady(i, decodes)
    \/ \E i \in 1..Len(tasks) : ReadySession(i)
    \/ \E i \in 1..Len(tasks) : ReadyBot(i)
    \/ \E i \in 1..Len(tasks) : DispatchReconnect(i)
    \/ \E i \in 1..Len(tasks) : ReconnectSession(i)
    \/ \E i \in 1..Len(tasks) : ReconnectSeq(i)
    \/ \E i \in 1..Len(tasks), opened, sent \in BOOLEAN : ReconnectResume(i, opened, sent)
    \/ \E i \in 1..Len(tasks), completes \in BOOLEAN : CallHandler(i, completes)

SpecSession == InitSession /\ [][NextSession]_vars

\* ---------------------------------------------------------------- the dispatcher on messages
Message(id, content, author, roles) == Body("message", "", "", "", id, content, author, roles)

\* message contents: "k x", "p", " k" (leading space), "y"
CreatedMessages == {
    Message("m1", <<"k", " ", "x">>, "owner", <<>>),
    Message("m1", <<"k", " ", "x">>, "u1", <<>>),
    Message("m1", <<"k", " ", "x">>, "u1", <<"r1">>),
    Message("m1", <<"p">>, "u1", <<>>),
    Message("m2", <<" ", "k">>, "u1", <<>>) }

UpdatedMessages == { Message("m1", <<"y">>, "u1", <<>>) }

MessagePayloads ==
    { Payload("Dispatch", Some(0), Some("MESSAGE_CREATE"), m) : m \in CreatedMessages }
    \cup { Payload("Dispatch", Some(0), Some("MESSAGE_UPDATE"), m) : m \in UpdatedMessages }
    \cup { Payload("Dispatch", Some(0), Some("MESSAGE_DELETE"), Deleted(id)) : id \in {"m1", "m2"} }

MessageItems == { Item("Text", TRUE, p) : p \in MessagePayloads }

InitDispatch ==
    /\ InitConn
    /\ event_handlers \in { {}, {"MessageDeleteRaw"}, {"MessageCreate", "MessageDelete"},
                             {"MessageCreate", "MessageUpdate", "MessageDelete", "MessageDeleteRaw"} }
    /\ perm = NoPerm

NextDispatch ==
    \/ Handshake(HelloItem)
    \/ \E ok \in BOOLEAN : Identify(ok)
    \/ \E item \in MessageItems : ReadLoop(item)
    \/ \E i \in 1..Len(tasks), decodes \in BOOLEAN : DispatchMessageCreate(i, decodes)
    \/ \E i \in 1..Len(tasks), fetched \in BOOLEAN : Authorize(i, fetched)
    \/ \E i \in 1..Len(tasks), outcome \in {"Ok", "Err", "Hang"} : RunCommand(i, outcome)
    \/ \E i \in 1..Len(tasks), decodes \in BOOLEAN : DispatchMessageUpdate(i, decodes)
    \/ \E i \in 1..Len(tasks), decodes \in BOOLEAN : DispatchMessageDelete(i, decodes)
    \/ \E i \in 1..Len(tasks), ok \in BOOLEAN : RawDeleteHandler(i, ok)
    \/ \E i \in 1..Len(tasks), completes \in BOOLEAN : CallHandler(i, completes)

SpecDispatch == InitDispatch /\ [][NextDispatch]_vars

\* ---------------------------------------------------------------- the dispatcher on interactions
Autocomplete(options) ==
    Interaction("i1", "ApplicationCommandAutocomplete", Some(CommandData(Some("c1"), Some(options))))

\* option lists: nothing focused, the first focused, the first and the third focused, none
\* flagged at all, and the second (which has no provider) focused after the first
Interactions == {
    Autocomplete(<<>>),
    Autocomplete(<<CommandOption("re", Some(FALSE)), CommandOption("", None)>>),
    Autocomplete(<<CommandOption("re", Some(TRUE))>>),
    Autocomplete(<<CommandOption("", Some(TRUE)), CommandOption("x", Some(FALSE)),
                   CommandOption("bl", Some(TRUE))>>),
    Autocomplete(<<CommandOption("re", None), CommandOption("x", None), CommandOption("", None)>>),
    Autocomplete(<<CommandOption("re", Some(TRUE)), CommandOption("x", Some(TRUE))>>),
    Interaction("i1", "ApplicationCommandAutocomplete", Some(CommandData(Some("c9"), Some(<<>>)))),
    Interaction("i1", "ApplicationCommandAutocomplete", Some(CommandData(Some("c1"), None))),
    Interaction("i2", "ApplicationCommand", Some(CommandData(Some("c1"), Some(<<>>)))),
    Interaction("i2", "ApplicationCommand", Some(CommandData(Some("c9"), None))),
    Interaction("i2", "ApplicationCommand", Some(CommandData(None, None))),
    Interaction("i3", "MessageComponent", None) }

InteractionItems ==
    { Item("Text", TRUE, Payload("Dispatch", Some(0), Some("INTERACTION_CREATE"), d)) : d \in Interactions }

InitInteraction ==
    /\ InitConn
    /\ event_handlers \in {{}, {"InteractionCreate"}}
    /\ perm = NoPerm

NextInteraction ==
    \/ Handshake(HelloItem)
    \/ \E ok \in BOOLEAN : Identify(ok)
    \/ \E item \in InteractionItems : ReadLoop(item)
    \/ \E i \in 1..Len(tasks), decodes \in BOOLEAN : DispatchInteractionCreate(i, decodes)
    \/ \E i \in 1..Len(tasks), outcome \in {"Ok", "Err", "Hang"} : RunSlashCommand(i, outcome)
    \/ \E i \in 1..Len(tasks), returns \in BOOLEAN : AutocompleteOption(i, returns)
    \/ \E i \in 1..Len(tasks), completes \in BOOLEAN : CallHandler(i, completes)

SpecInteraction == InitInteraction /\ [][NextInteraction]_vars

\* ---------------------------------------------------------------- locks
\* the locks a dispatch of an event takes, in order, each released before the next is taken:
\*   Ready 189-191, MessageCreate 199-202, MessageUpdate 257-260, MessageDelete 268,
\*   Reconnect (reconnect()) 400-403, GuildRoleCreate/Update/Delete 296-314
LocksOf(event) ==
    CASE event = "Ready" -> <<"RESUME_GATEWAY_URL", "SESSION_ID", "BOT_ID">>
      [] event = "Reconnect" -> <<"RESUME_GATEWAY_URL", "TOKEN", "SESSION_ID", "sequence">>
      [] event \in {"MessageCreate", "MessageUpdate", "MessageDelete"} -> <<"MESSAGE_CACHE">>
      [] event \in {"GuildRoleCreate", "GuildRoleUpdate", "GuildRoleDelete"} -> <<"ROLE_CACHE">>
      [] OTHER -> <<>>

LockEvents == {"Ready", "Reconnect", "MessageDelete", "GuildRoleDelete", "GuildCreate"}

Free(l) == lk.held[l] = Nobody
Take(held, l, t) == [held EXCEPT ![l] = t]
Drop(held, l) == [held EXCEPT ![l] = Nobody]
lockRest == <<connAll, sessionVars, tasks, resumes, MESSAGE_CACHE, event_handlers, perm>>

\* line 87: `self.socket.1.lock().await` in the scrutinee of the `if let`
HandshakeLock ==
    /\ lk.conn = "start"
    /\ Free("read")
    /\ lk' = [lk EXCEPT !.held = Take(@, "read", Connect), !.conn = "first"]
    /\ UNCHANGED lockRest

\* lines 87-110: the first read under the read-half guard, which lives to the end of the
\* `if let`: on "hello" the heartbeat task is spawned and identify() is called with the
\* guard still alive; "other" (no text frame) leaves the `if let`; "fatal" panics
HandshakeFirst(outcome) ==
    /\ lk.conn = "first"
    /\ lk' = CASE outcome = "hello" -> [lk EXCEPT !.conn = "identify", !.beat = "lock"]
               [] outcome = "other" -> [lk EXCEPT !.held = Drop(@, "read"), !.conn = "loop"]
               [] outcome = "fatal" -> [lk EXCEPT !.held = Drop(@, "read"), !.conn = "panicked"]
    /\ UNCHANGED lockRest

IdentifyWants_ReadHalf == "read"
\* line 448 (send_text, called by identify at line 104): `self.socket.0.lock().await`
IdentifyWants == "write"

IdentifyLock ==
    /\ lk.conn = "identify"
    /\ Free(IdentifyWants)
    /\ lk' = [lk EXCEPT !.held = Take(@, IdentifyWants, Connect), !.conn = "send"]
    /\ UNCHANGED lockRest

\* lines 448 and 104-110: the send ends, the write-half guard is dropped, then the `if let`
\* ends (or `?` returns) and the read-half guard is dropped
IdentifySend(ok) ==
    /\ lk.conn = "send"
    /\ lk' = [lk EXCEPT !.held = Drop(Drop(@, "write"), "read"),
                        !.conn = IF ok THEN "loop" ELSE "returned"]
    /\ UNCHANGED lockRest

\* line 117: `self.socket.1.lock().await`
LoopLock ==
    /\ lk.conn = "loop"
    /\ Free("read")
    /\ lk' = [lk EXCEPT !.held = Take(@, "read", Connect), !.conn = "read"]
    /\ UNCHANGED lockRest

\* lines 117-163: `.next().await` under the guard, dropped at the end of the `let`
LoopRead(outcome) ==
    /\ lk.conn = "read"
    /\ outcome = "dispatch" => Len(lk.disp) < MaxFrames
    /\ lk' = [lk EXCEPT !.held = Drop(@, "read"),
                        !.conn = CASE outcome = "dispatch" -> "sequence"
                                   [] outcome = "other" -> "loop"
                                   [] outcome = "break" -> "returned"]
    /\ UNCHANGED lockRest

\* line 127: `self.sequence.lock().await`
SequenceLock ==
    /\ lk.conn = "sequence"
    /\ Free("sequence")
    /\ lk' = [lk EXCEPT !.held = Take(@, "sequence", Connect), !.conn = "record"]
    /\ UNCHANGED lockRest

\* lines 127-155: the assignment ends the guard; the dispatch task is spawned
SequenceRecord(event) ==
    /\ lk.conn = "record"
    /\ lk' = [lk EXCEPT !.held = Drop(@, "sequence"), !.conn = "loop",
                        !.disp = Append(@, [event |-> event, at |-> 1, holding |-> FALSE])]
    /\ UNCHANGED lockRest

\* lines 428-430: `writer.lock().await`
BeatLock ==
    /\ lk.beat = "lock"
    /\ Free("write")
    /\ lk' = [lk EXCEPT !.held = Take(@, "write", Heartbeat), !.beat = "send"]
    /\ UNCHANGED lockRest

\* lines 431-438: the send under the guard, which is dropped at the end of the statement
BeatSend(ok) ==
    /\ lk.beat = "send"
    /\ lk' = [lk EXCEPT !.held = Drop(@, "write"), !.beat = IF ok THEN "lock" ELSE "panicked"]
    /\ UNCHANGED lockRest

Wanted(i) == LocksOf(lk.disp[i].event)[lk.disp[i].at]

\* dispatch task i takes the next lock of its event
TaskLock(i) ==
    /\ i \in 1..Len(lk.disp)
    /\ ~lk.disp[i].holding
    /\ lk.disp[i].at <= Len(LocksOf(lk.disp[i].event))
    /\ Free(Wanted(i))
    /\ lk' = [lk EXCEPT !.held = Take(@, Wanted(i), Dispatch(i)), !.disp[i].holding = TRUE]
    /\ UNCHANGED lockRest

\* dispatch task i ends the statement (or, for MessageDelete, the `if let`) that holds its lock
TaskUnlock(i) ==
    /\ i \in 1..Len(lk.disp)
    /\ lk.disp[i].holding
    /\ lk' = [lk EXCEPT !.held = Drop(@, Wanted(i)), !.disp[i].holding = FALSE, !.disp[i].at = @ + 1]
    /\ UNCHANGED lockRest

NextLocks ==
    \/ HandshakeLock
    \/ \E outcome \in {"hello", "other", "fatal"} : HandshakeFirst(outcome)
    \/ IdentifyLock
    \/ \E ok \in BOOLEAN : IdentifySend(ok)
    \/ LoopLock
    \/ \E outcome \in {"dispatch", "other", "break"} : LoopRead(outcome)
    \/ SequenceLock
    \/ \E event \in LockEvents : SequenceRecord(event)
    \/ BeatLock
    \/ \E ok \in BOOLEAN : BeatSend(ok)
    \/ \E i \in 1..MaxFrames : TaskLock(i)
    \/ \E i \in 1..MaxFrames : TaskUnlock(i)

InitLocks ==
    /\ InitConn
    /\ event_handlers = {}
    /\ perm = NoPerm

SpecLocks == InitLocks /\ [][NextLocks]_vars

\* ---------------------------------------------------------------- the writers of the session fields
\* a Ready event, a Reconnect event, an event that touches no field (with no sequence
\* number), and a frame with the Reconnect opcode
FieldPayloads ==
    { Payload("Dispatch", Some(1), Some("READY"), d) : d \in ReadyBodies }
    \cup {
      Payload("Dispatch", Some(2), Some("RECONNECT"), NoData),
      Payload("Dispatch", None, Some("GUILD_CREATE"), NoData),
      Payload("Reconnect", None, None, NoData) }

FieldItems == { Item("Text", TRUE, p) : p \in FieldPayloads }

InitFields ==
    /\ InitConn
    /\ event_handlers \in {{}, {"Ready", "Reconnect", "GuildCreate"}}
    /\ perm = NoPerm

NextFields ==
    \/ Handshake(HelloItem)
    \/ \E ok \in BOOLEAN : Identify(ok)
    \/ \E item \in FieldItems : ReadLoop(item)
    \/ \E ok \in BOOLEAN : HeartbeatBeat(ok)
    \/ \E i \in 1..Len(tasks), decodes \in BOOLEAN : DispatchReady(i, decodes)
    \/ \E i \in 1..Len(tasks) : ReadySession(i)
    \/ \E i \in 1..Len(tasks) : ReadyBot(i)
    \/ \E i \in 1..Len(tasks) : DispatchReconnect(i)
    \/ \E i \in 1..Len(tasks) : ReconnectSession(i)
    \/ \E i \in 1..Len(tasks) : ReconnectSeq(i)
    \/ \E i \in 1..Len(tasks), opened, sent \in BOOLEAN : ReconnectResume(i, opened, sent)
    \/ \E i \in 1..Len(tasks), decodes \in BOOLEAN : DispatchGuildCreate(i, decodes)
    \/ \E i \in 1..Len(tasks), completes \in BOOLEAN : CallHandler(i, completes)

SpecFields == InitFields /\ [][NextFields]_vars

\* ---------------------------------------------------------------- one permission resolution
\* permission bitmasks as the decimal strings the REST objects carry
\*   "0", "1", "2", "4", "6", "8", "10" (= ADMINISTRATOR | 2)

Overwrites == {
    Overwrite("u1", 1, <<4>>, <<1>>),     \* member overwrite for the member
    Overwrite("u2", 1, <<2>>, <<4>>),     \* member overwrite for someone else
    Overwrite("r1", 0, <<1>>, <<2>>),     \* role overwrites
    Overwrite("r2", 0, <<2>>, <<6>>),
    Overwrite("r3", 0, <<1>>, <<4>>),
    Overwrite("u1", 0, <<1>>, <<0>>),     \* role overwrite that carries the member's id
    Overwrite("r1", 1, <<4>>, <<0>>) }    \* member overwrite that carries a role id

RECURSIVE ListsUpTo(_, _)
ListsUpTo(S, n) ==
    IF n = 0 THEN {<<>>}
    ELSE ListsUpTo(S, n - 1) \cup { Append(l, x) : l \in ListsUpTo(S, n - 1), x \in S }

Channels ==
    {None, Some([permission_overwrites |-> None])}
    \cup { Some([permission_overwrites |-> Some(l)]) : l \in ListsUpTo(Overwrites, MaxOverwrites) \ {<<>>} }
    \cup { Some([permission_overwrites |-> Some(<<>>)]) }

\* a guild: its owner, the permissions of its default role (<<>>: not available), and the
\* roles it resolves (r3 is a role id the guild does not resolve)
Guilds ==
    { [owner_id |-> o, default |-> d, roles |-> [r1 |-> p1, r2 |-> p2]] :
        o \in {"u1", "u2"}, d \in {<<>>, <<0>>, <<1>>, <<1, 0>>},
        p1 \in {<<2>>, <<6>>, <<8>>}, p2 \in {<<4>>, <<1>>} }

MemberRoles == {<<>>, <<"r1">>, <<"r1", "r2">>, <<"r3">>, <<"r3", "r2">>}

InitPerm ==
    /\ InitConn
    /\ event_handlers = {}
    /\ perm \in { [roles |-> r, id |-> "u1", guild |-> g, channel |-> c, state |-> "called", result |-> 0] :
                    r \in MemberRoles, g \in Guilds, c \in Channels }

\* one call of fetch_permissions(roles, id, &guild, channel)
Resolve ==
    /\ perm.state = "called"
    /\ perm' = [perm EXCEPT !.state = "returned",
                            !.result = fetch_permissions(perm.roles, perm.id, perm.guild, perm.channel)]
    /\ UNCHANGED <<connAll, sessionVars, tasks, resumes, MESSAGE_CACHE, event_handlers, lk>>

NextPerm == Resolve

SpecPerm == InitPerm /\ [][NextPerm]_vars

\* ---------------------------------------------------------------- claims on the dispatcher

\* the calls of a kind and name that a task has made, in order
CallsOf(i, kind, name) == SelectSeq(tasks[i].log, LAMBDA c : c.kind = kind /\ c.name = name)
KindCalls(i, kind) == SelectSeq(tasks[i].log, LAMBDA c : c.kind = kind)

IsTaskOf(i, type_name) == tasks[i].type_name = Some(type_name)

\* the key is in the message cache
Cached(cache, id) == \E n \in 1..Len(cache) : cache[n].key = id
CachedValue(cache, id) == cache[CHOOSE n \in 1..Len(cache) : cache[n].key = id].value

\* the step of task i that pops the deleted id, on a body that decodes
PopStep(i) ==
    /\ i \in 1..Len(tasks)
    /\ IsTaskOf(i, "MESSAGE_DELETE")
    /\ tasks[i].pc = "start"
    /\ tasks'[i].pc = "handler"

\* what the pop of task i decides: on a cached id the entry is removed, the event stays
\* MessageDelete with the cached message, and the raw-delete call is spawned iff its
\* handler is registered; otherwise the event is MessageDeleteRaw with the minimal payload
C4_Pop(i) ==
    LET id == tasks[i].data.id IN
    /\ ~Cached(MESSAGE_CACHE', id)
    /\ IF Cached(MESSAGE_CACHE, id)
       THEN /\ tasks'[i].event = "MessageDelete"
            /\ tasks'[i].data = CachedValue(MESSAGE_CACHE, id)
            /\ tasks'[i].data.shape = "message"
            /\ (tasks'[i].raw = "spawned") <=> ("MessageDeleteRaw" \in event_handlers)
       ELSE /\ tasks'[i].event = "MessageDeleteRaw"
            /\ tasks'[i].data = Deleted(id)
            /\ tasks'[i].raw = "none"

\* the handler calls of a delete task that has run to its end, with its spawned call
C4_Calls(i) ==
    (IsTaskOf(i, "MESSAGE_DELETE") /\ tasks[i].pc = "done" /\ tasks[i].raw # "spawned") =>
        LET minimal == Deleted(tasks[i].data.id)
            generic == CallsOf(i, "handler", "MessageDelete")
            raw == CallsOf(i, "handler", "MessageDeleteRaw")
        IN IF tasks[i].event = "MessageDelete"
           THEN /\ generic = IF "MessageDelete" \in event_handlers
                             THEN <<Call("handler", "MessageDelete", tasks[i].data)>> ELSE <<>>
                /\ raw = IF "MessageDeleteRaw" \in event_handlers
                         THEN <<Call("handler", "MessageDeleteRaw", minimal)>> ELSE <<>>
           ELSE /\ generic = <<>>
                /\ raw = IF "MessageDeleteRaw" \in event_handlers
                         THEN <<Call("handler", "MessageDeleteRaw", minimal)>> ELSE <<>>

\* C4: a MessageDelete for a cached id removes the entry, invokes the message-delete
\* handler with the cached full message and, independently, the raw-delete handler (if
\* registered) with the minimal payload; for an id that is not cached only the raw-delete
\* handler is invoked, with the minimal payload.
C4_DeleteDispatch ==
    /\ [](\A i \in 1..Len(tasks) : C4_Calls(i))
    /\ [][\A i \in 1..Len(tasks) : PopStep(i) => C4_Pop(i)]_vars

C4_Witness ==
    \E i \in 1..Len(tasks) :
        /\ IsTaskOf(i, "MESSAGE_DELETE")
        /\ tasks[i].pc = "done"
        /\ tasks[i].raw = "done"
        /\ tasks[i].event = "MessageDelete"
        /\ Len(CallsOf(i, "handler", "MessageDelete")) = 1
        /\ Len(CallsOf(i, "handler", "MessageDeleteRaw")) = 1

\* the first space-delimited token of the content is the name of a registered command
MatchesCommand(content) ==
    \E n \in DOMAIN commands :
        /\ Len(content) >= 1
        /\ content[1] = n
        /\ Len(content) >= 2 => content[2] = " "

\* the required-permission bitmask of the command the content names
RequiredOf(content) == RequiredPermissions(commands[content[1]])

\* C5: for a MessageCreate whose first token names a command with a non-zero required
\* bitmask R and whose member's resolved bitmask U has U & R # R, the command body is
\* never invoked and exactly one denial reply is sent for the message.
C5_DeniedCommand ==
    \A i \in 1..Len(tasks) :
        LET message == tasks[i].data IN
        (/\ IsTaskOf(i, "MESSAGE_CREATE")
         /\ MatchesCommand(message.content)
         /\ RequiredOf(message.content) # 0
         /\ BitAnd(fetch_permissions(message.roles, message.author, TheGuild, Some(TheChannel)),
                   RequiredOf(message.content)) # RequiredOf(message.content))
        => /\ KindCalls(i, "command") = <<>>
           /\ tasks[i].pc \notin {"command", "hung"}
           /\ Len(KindCalls(i, "reply")) <= 1
           /\ tasks[i].pc = "done" => KindCalls(i, "reply") = <<Call("reply", DenialReply, message)>>

C5_Witness ==
    \E i \in 1..Len(tasks) :
        /\ IsTaskOf(i, "MESSAGE_CREATE")
        /\ tasks[i].data.author = "u1"
        /\ tasks[i].pc = "done"
        /\ tasks[i].log = <<Call("reply", DenialReply, tasks[i].data)>>

\* the step of task i that handles a MessageCreate body that decodes
CreateStep(i) ==
    /\ i \in 1..Len(tasks)
    /\ IsTaskOf(i, "MESSAGE_CREATE")
    /\ tasks[i].pc = "start"
    /\ tasks'[i].pc \in {"handler", "authorize", "command"}

C6_Calls(i) ==
    IsTaskOf(i, "MESSAGE_CREATE") =>
        LET generic == CallsOf(i, "handler", "MessageCreate") IN
        /\ tasks[i].pc = "start" => tasks[i].log = <<>>
        /\ IF MatchesCommand(tasks[i].data.content)
           THEN /\ KindCalls(i, "handler") = <<>>
                /\ tasks[i].pc # "handler"
           ELSE /\ KindCalls(i, "command") = <<>>
                /\ tasks[i].pc = "done" =>
                      generic = IF "MessageCreate" \in event_handlers
                                THEN <<Call("handler", "MessageCreate", tasks[i].data)>> ELSE <<>>
                /\ Len(generic) <= 1

\* C6: a MessageCreate whose first space-delimited token names a registered command never
\* invokes the generic MessageCreate handler; one that names no command invokes it exactly
\* once if it is registered; in both cases the message is put in the cache first.
C6_CommandShortCircuits ==
    /\ [](\A i \in 1..Len(tasks) : C6_Calls(i))
    /\ [][\A i \in 1..Len(tasks) : CreateStep(i) =>
            /\ tasks[i].log = <<>>
            /\ Cached(MESSAGE_CACHE', tasks[i].data.id)
            /\ CachedValue(MESSAGE_CACHE', tasks[i].data.id) = tasks[i].data]_vars

C6_Witness ==
    /\ Len(tasks) >= 2
    /\ IsTaskOf(1, "MESSAGE_CREATE") /\ IsTaskOf(2, "MESSAGE_CREATE")
    /\ tasks[1].data.content = <<" ", "k">>
    /\ tasks[1].pc = "done"
    /\ tasks[1].log = <<Call("handler", "MessageCreate", tasks[1].data)>>
    /\ tasks[2].data.content = <<"p">>
    /\ tasks[2].pc = "done"
    /\ KindCalls(2, "command") # <<>>

\* ---------------------------------------------------------------- claims on fetch_permissions

\* C7: for a member whose id is the guild's owner id the resolution returns the
\* full-admin bitmask, whatever the member roles, the default-role and role permissions
\* and the channel (no channel included).
C7_OwnerIsAdmin ==
    (perm.state = "returned" /\ perm.id = perm.guild.owner_id) => perm.result = ADMINISTRATOR

C7_Witness ==
    /\ perm.state = "returned"
    /\ perm.id = perm.guild.owner_id
    /\ perm.roles = <<"r1", "r2">>
    /\ perm.guild.default = <<0>>
    /\ perm.channel = Some([permission_overwrites |-> Some(<<Overwrite("u1", 1, <<4>>, <<1>>)>>)])
    /\ perm.result = ADMINISTRATOR

\* the set of bit positions set in n
RECURSIVE BitsFrom(_, _)
BitsFrom(n, i) == IF n = 0 THEN {} ELSE (IF n % 2 = 1 THEN {i} ELSE {}) \cup BitsFrom(n \div 2, i + 1)
BitSet(n) == BitsFrom(n, 0)

\* the reference fold, on sets of bits: the default role's bits and those of every
\* member role the guild resolves ...
RefBase ==
    BitSet(ParseU64(perm.guild.default))
    \cup UNION { BitSet(ParseU64(perm.guild.roles[r])) : r \in Range(perm.roles) \cap DOMAIN perm.guild.roles }

RefOverwrites ==
    IF IsSome(perm.channel) /\ IsSome(Unwrap(perm.channel).permission_overwrites)
    THEN Unwrap(Unwrap(perm.channel).permission_overwrites) ELSE <<>>

\* ... then, after the first k overwrites: (mask & !deny) | allow for each one that targets
\* the member (type member) or one of the member's role ids (type role)
RECURSIVE RefAfter(_)
RefAfter(k) ==
    IF k = 0 THEN RefBase
    ELSE LET o == RefOverwrites[k]
             targets == \/ (o.overwrite_type = 1 /\ o.id = perm.id)
                        \/ (o.overwrite_type = 0 /\ \E j \in 1..Len(perm.roles) : perm.roles[j] = o.id)
         IN IF targets
            THEN (RefAfter(k - 1) \ BitSet(ParseU64(o.deny))) \cup BitSet(ParseU64(o.allow))
            ELSE RefAfter(k - 1)

\* the position of the ADMINISTRATOR bit
AdminBit == CHOOSE b \in 0..63 : BitSet(ADMINISTRATOR) = {b}

\* C8: for a member who is not the owner and whose default-role and role permissions
\* together lack the admin bit, the resolution equals the reference fold: P0 | P1 | ...
\* with no channel, and each targeting overwrite applied in list order as
\* (mask & !deny) | allow.
C8_NonAdminFold ==
    (/\ perm.state = "returned"
     /\ perm.id # perm.guild.owner_id
     /\ perm.guild.default # <<>>
     /\ AdminBit \notin RefBase)
    => /\ perm.result >= 0
       /\ BitSet(perm.result) = RefAfter(Len(RefOverwrites))

C8_Witness ==
    /\ perm.state = "returned"
    /\ perm.id # perm.guild.owner_id
    /\ perm.roles = <<"r1", "r2">>
    /\ perm.guild.default = <<1>>
    /\ perm.guild.roles = [r1 |-> <<2>>, r2 |-> <<4>>]
    /\ RefOverwrites = <<Overwrite("r2", 0, <<2>>, <<6>>), Overwrite("u1", 1, <<4>>, <<1>>)>>
    /\ perm.result = 6

\* ---------------------------------------------------------------- claims on the connection

FirstPayload == Unwrap(parse(Unwrap(first)))
FirstIsFrame == IsSome(first) /\ IsText(Unwrap(first)) /\ IsSome(parse(Unwrap(first)))

C2_SequenceIsMaxSeen ==
    seen.increasing => sequence = unwrap_or(seen.max, 0)

C2_Witness ==
    /\ seen.count >= 2
    /\ seen.increasing
    /\ sequence = Unwrap(seen.max)

\* every dispatch task has run as far as it ever will, and connect() has ended
Settled ==
    /\ pc \in {"returned", "panicked"}
    /\ \A i \in 1..Len(tasks) : tasks[i].pc \in {"done", "panicked", "hung"}

\* C3: each frame with opcode Reconnect that the read loop receives after a Ready event
\* stored the resume URL and session id leads to one Resume frame on a new connection
\* (counted when nothing is in flight and no RECONNECT event was dispatched besides).
C3_ReconnectOpcodeResumes ==
    (Settled /\ \A i \in 1..Len(tasks) : tasks[i].type_name # Some("RECONNECT")) =>
        Len(resumes) = Cardinality({k \in 1..Len(ignored) : ignored[k]})

\* C9: when a transport error or the end of the stream ends the read loop, connect
\* returns a result that carries the error.
C9_ErrorSurfaced ==
    broke \in {"Err", "End"} => (pc = "returned" /\ result = "Err")

\* C10: the read loop never waits for a dispatch task: every Dispatch frame it processed
\* has its task spawned, and its next read can take a Dispatch frame whatever the state
\* of the tasks spawned before, one that never completes included.
C10_ReadLoopNeverWaits ==
    /\ Len(tasks) = seen.count
    /\ (pc = "loop" /\ reads < MaxFrames) =>
           \A p \in {q \in ConnPayloads : IsDispatch(q)} : ENABLED ReadLoop(Item("Text", TRUE, p))

C10_Witness ==
    /\ Len(tasks) >= 2
    /\ tasks[1].pc = "hung"
    /\ seen.count = 2
    /\ IsSome(seen.max) /\ sequence = Unwrap(seen.max)

\* C16: a malformed text frame read by the read loop changes neither the sequence counter
\* nor the session fields nor the message cache nor any dispatch task (none is spawned);
\* it uses up the read, and the loop stays in the loop, ready for the next frame.
C16_MalformedFrameSkipped ==
    [][ReadLoop(MalformedItem) =>
           /\ <<sequence, seen, sessionVars, MESSAGE_CACHE, tasks, resumes>>' =
                  <<sequence, seen, sessionVars, MESSAGE_CACHE, tasks, resumes>>
           /\ reads' = reads + 1
           /\ pc' = "loop"]_vars

C16_Witness ==
    /\ skipped >= 1
    /\ pc = "loop"
    /\ sequence > 0
    /\ IsSome(SESSION_ID)
    /\ Len(tasks) >= 1

\* ---------------------------------------------------------------- claims on failing dispatches

\* C17: a dispatch that fails affects no other: a dispatch task panics only for a reason of
\* its own (its frame, a value it unwraps, the network), never on a lock that another
\* task's panic left poisoned, and the read loop can take its next frame whatever the
\* dispatch tasks did.
C17_FailureIsContained ==
    /\ \A i \in 1..Len(tasks) : tasks[i].pc = "panicked" => tasks[i].cause # "poisoned"
    /\ (pc = "loop" /\ reads < MaxFrames) => \A item \in SessionItems : ENABLED ReadLoop(item)

\* ---------------------------------------------------------------- claims on concurrent message dispatches

\* the frames about a message id, by their position in the order of arrival
FramesFor(id) == { i \in 1..Len(tasks) : tasks[i].data.id = id }
LastFrameFor(id) == CHOOSE i \in FramesFor(id) : \A j \in FramesFor(id) : j <= i

\* C18: whenever every dispatch task has run to its end, a message id is in the message
\* cache only if the last frame that arrived for it is not a MessageDelete.
C18_CacheConsistent ==
    (\A i \in 1..Len(tasks) : tasks[i].pc = "done") =>
        \A id \in {"m1", "m2"} :
            Cached(MESSAGE_CACHE, id) => ~IsTaskOf(LastFrameFor(id), "MESSAGE_DELETE")

\* ---------------------------------------------------------------- claims on authorization

\* the invoker is the guild's owner, or the default role or a member role has the
\* ADMINISTRATOR bit
IsAdministrator(message) ==
    \/ message.author = TheGuild.owner_id
    \/ BitAnd(AggregateRoles(ParseU64(TheGuild.default), message.roles, TheGuild), ADMINISTRATOR)
           = ADMINISTRATOR

\* C19: a MessageCreate that names a command with a non-zero required bitmask, sent by the
\* owner or by an administrator, gets no denial reply, and once its dispatch is done the
\* command body was invoked.
C19_AdministratorPasses ==
    \A i \in 1..Len(tasks) :
        LET message == tasks[i].data IN
        (/\ IsTaskOf(i, "MESSAGE_CREATE")
         /\ MatchesCommand(message.content)
         /\ RequiredOf(message.content) # 0
         /\ IsAdministrator(message))
        => /\ CallsOf(i, "reply", DenialReply) = <<>>
           /\ tasks[i].pc = "done" => KindCalls(i, "command") # <<>>

\* ---------------------------------------------------------------- claims on the handshake

\* C20: whatever the first read yields, a Dispatch frame is processed only after a Hello
\* frame was received as the first frame, the heartbeat task was started and the
\* Identify frame was sent.
C20_LoopAfterHandshake ==
    seen.count > 0 =>
        /\ FirstIsFrame
        /\ FirstPayload.operation_code = "Hello"
        /\ heartbeat.started = 1
        /\ identifies = 1

\* ---------------------------------------------------------------- claims on the heartbeat

\* C11: every Heartbeat frame carries the value the shared sequence counter holds when the
\* frame is built (0 before any Dispatch frame), so no Heartbeat frame carries a value
\* larger than the largest sequence number received.
C11_HeartbeatCarriesSequence ==
    /\ [][Len(heartbeat'.sent) > Len(heartbeat.sent) =>
              heartbeat'.sent[Len(heartbeat'.sent)] = sequence]_vars
    /\ [](\A k \in 1..Len(heartbeat.sent) : heartbeat.sent[k] <= unwrap_or(seen.max, 0))

\* C13: once the heartbeat task has failed to send a Heartbeat frame, the process is
\* over: no further socket read, no sequence update, and no dispatch task is spawned or
\* takes a step.
C13_HeartbeatFailureIsFatal ==
    [][heartbeat.state = "panicked" =>
           (reads' = reads /\ sequence' = sequence /\ tasks' = tasks)]_vars

\* ---------------------------------------------------------------- claims on interactions

IsAutocomplete(i) ==
    /\ tasks[i].event = "InteractionCreate"
    /\ tasks[i].data.type_ = "ApplicationCommandAutocomplete"

\* the positions up to n of the options flagged as focused, in order
RECURSIVE FocusedUpTo(_, _)
FocusedUpTo(options, n) ==
    IF n = 0 THEN <<>>
    ELSE IF options[n].focused = Some(TRUE)
         THEN Append(FocusedUpTo(options, n - 1), n)
         ELSE FocusedUpTo(options, n - 1)

\* the strings the provider registered at a position returns for the option there
Returned(i, idx) ==
    Suggest(Unwrap(ProvidersOf(tasks[i].data)[idx]), OptionsOf(tasks[i].data)[idx].value)

\* C12: the callback requests an autocomplete interaction has sent are one per focused
\* option the loop has passed, in order (all of them once the loop is through), each
\* carrying one choice per string its provider returned for the option's partial value,
\* in the same order, with name and value both equal to the string.
C12_OneCallbackPerFocusedOption ==
    \A i \in 1..Len(tasks) :
        IsAutocomplete(i) =>
            LET options == OptionsOf(tasks[i].data)
                requests == KindCalls(i, "request")
                focused == FocusedUpTo(options, tasks[i].idx - 1)
            IN /\ tasks[i].pc \in {"handler", "done"} => tasks[i].idx = Len(options) + 1
               /\ Len(requests) = Len(focused)
               /\ \A k \in 1..Len(requests) :
                     LET strings == Returned(i, focused[k])
                         choices == requests[k].data
                     IN /\ requests[k].name = <<"interactions", tasks[i].data.id, tasks[i].data.token, "callback">>
                        /\ Len(choices) = Len(strings)
                        /\ \A j \in 1..Len(strings) :
                              choices[j].name = strings[j] /\ choices[j].value = strings[j]

C12_Witness ==
    \E i \in 1..Len(tasks) :
        /\ IsAutocomplete(i)
        /\ tasks[i].pc = "done"
        /\ Len(OptionsOf(tasks[i].data)) = 3
        /\ Len(KindCalls(i, "request")) = 2
        /\ KindCalls(i, "request")[1].data = <<[name |-> "red", value |-> "red"], [name |-> "blue", value |-> "blue"]>>

\* ---------------------------------------------------------------- claims on the locks

LockTasks == {Connect, Heartbeat} \cup { Dispatch(i) : i \in 1..Len(lk.disp) }
HeldBy(t) == { l \in Locks : lk.held[l] = t }

\* C14: no task holds more than one lock at a time (so connect() does not hold the
\* read-half lock while identify() takes the write-half lock).
C14_AtMostOneLock ==
    \A t \in LockTasks : Cardinality(HeldBy(t)) <= 1

\* the lock a task has asked for and not got yet ("": none)
Wants(t) ==
    CASE t = Connect -> (CASE lk.conn \in {"start", "loop"} -> "read"
                           [] lk.conn = "identify" -> IdentifyWants
                           [] lk.conn = "sequence" -> "sequence"
                           [] OTHER -> "")
      [] t = Heartbeat -> (IF lk.beat = "lock" THEN "write" ELSE "")
      [] OTHER -> (IF ~lk.disp[t.n].holding /\ lk.disp[t.n].at <= Len(LocksOf(lk.disp[t.n].event))
                   THEN Wanted(t.n) ELSE "")

Blocked(t) == Wants(t) # "" /\ ~Free(Wants(t))

\* a set of tasks each of which waits for a lock that a task of the set holds
Deadlocked(T) == T # {} /\ \A t \in T : Blocked(t) /\ lk.held[Wants(t)] \in T

\* the steps of one task
StepOf(t) ==
    IF t = Connect
    THEN \/ HandshakeLock
         \/ \E outcome \in {"hello", "other", "fatal"} : HandshakeFirst(outcome)
         \/ IdentifyLock
         \/ \E ok \in BOOLEAN : IdentifySend(ok)
         \/ LoopLock
         \/ \E outcome \in {"dispatch", "other", "break"} : LoopRead(outcome)
         \/ SequenceLock
         \/ \E event \in LockEvents : SequenceRecord(event)
    ELSE IF t = Heartbeat
    THEN BeatLock \/ \E ok \in BOOLEAN : BeatSend(ok)
    ELSE TaskLock(t.n) \/ TaskUnlock(t.n)

\* C15: no set of tasks ever waits on each other's locks, and a task that holds a lock
\* and waits for none can always take its next step: every chain of tasks waiting for a
\* lock ends at a holder that can run and release it.
C15_NoLockDeadlock ==
    /\ \A T \in SUBSET LockTasks : ~Deadlocked(T)
    /\ \A t \in LockTasks : (HeldBy(t) # {} /\ ~Blocked(t)) => ENABLED StepOf(t)

\* connect(), holding the read half, waits for the write half that the heartbeat task holds
C15_Witness ==
    /\ Blocked(Connect)
    /\ lk.held["read"] = Connect
    /\ lk.held["write"] = Heartbeat

\* ---------------------------------------------------------------- claims on the session

\* C21: once reconnect() has sent a Resume frame on a new connection, that connection is
\* open, it is the one the read loop reads and the heartbeat task writes, and no second
\* Identify frame is sent.
C21_ResumeRestoresContinuity ==
    Len(resumes) > 0 =>
        LET resumed == resumes[Len(resumes)] IN
        /\ resumed.open
        /\ ReadHalf = resumed.number
        /\ WriteHalf = resumed.number
        /\ identifies <= 1

\* ---------------------------------------------------------------- claims on the read loop

NonTextItem == Item("NonText", FALSE, AnyPayload)

\* C22: only a transport error or the end of the stream ends the read loop; a frame that is
\* not a text frame, and a text frame whose opcode is not Dispatch, change neither the
\* sequence counter nor the session fields nor the message cache nor any dispatch task,
\* and leave connect() in the read loop.
C22_OnlyErrorsEndTheLoop ==
    /\ [](broke \in {"", "Err", "End"})
    /\ [][(\/ ReadLoop(NonTextItem)
           \/ \E p \in ControlPayloads : ReadLoop(Item("Text", TRUE, p)))
          => /\ <<sequence, seen, sessionVars, MESSAGE_CACHE, tasks>>' =
                    <<sequence, seen, sessionVars, MESSAGE_CACHE, tasks>>
             /\ pc' = "loop"]_vars

\* ---------------------------------------------------------------- claims on the writers of the fields

\* C23: a step that changes the resume URL, the session id or the bot id is a step of the
\* dispatch of a Ready event, and the changed field gets that event's value; a step that
\* changes the sequence counter is the read loop taking a Dispatch frame, it sets the
\* counter to the frame's sequence number (0 for a frame without one) and spawns the
\* frame's dispatch task in the same step.  So no other dispatch, nor the heartbeat
\* task, nor reconnect() changes any of the four.
C23_FieldWriters ==
    /\ [][<<RESUME_GATEWAY_URL, SESSION_ID, BOT_ID>>' # <<RESUME_GATEWAY_URL, SESSION_ID, BOT_ID>> =>
              \E i \in 1..Len(tasks) :
                  /\ IsTaskOf(i, "READY")
                  /\ tasks'[i] # tasks[i]
                  /\ \A j \in 1..Len(tasks) : j # i => tasks'[j] = tasks[j]
                  /\ RESUME_GATEWAY_URL' \in {RESUME_GATEWAY_URL, Some(tasks[i].data.resume_gateway_url)}
                  /\ SESSION_ID' \in {SESSION_ID, Some(tasks[i].data.session_id)}
                  /\ BOT_ID' \in {BOT_ID, Some(tasks[i].data.user_id)}]_vars
    /\ [][sequence' # sequence =>
              /\ pc = "loop" /\ reads' = reads + 1
              /\ Len(tasks') = Len(tasks) + 1
              /\ tasks'[Len(tasks')].pc = "start"
              /\ \E p \in FieldPayloads :
                    /\ p.operation_code = "Dispatch"
                    /\ tasks'[Len(tasks')].type_name = p.type_name
                    /\ sequence' = (IF IsSome(p.sequence) THEN Unwrap(p.sequence) ELSE 0)]_vars

C23_Witness ==
    /\ sequence = 2
    /\ RESUME_GATEWAY_URL = Some("wss://a") /\ SESSION_ID = Some("sA") /\ BOT_ID = Some("bot")
    /\ Len(resumes) = 1
    /\ Len(heartbeat.sent) >= 1

====
